---- MODULE Spec2Model ----
(***************************************************************************)
(* coralogix-query-mcp: the query_logs pipeline.                           *)
(*                                                                         *)
(*   createQueryLogsHandler -> executeQueryLogs                            *)
(*        -> QueryProcessor.buildQueryContext / validatePagination /       *)
(*           calculateOffset / optimizeQuery                               *)
(*        -> CoralogixClient.queryLogs -> makeRequestWithRetry (fetch,     *)
(*           backoff sleep) -> response parsing                            *)
(*        -> slice of the page -> ResponseProcessor.processLogs            *)
(*                                                                         *)
(* Instants are milliseconds counted from 2024-01-15T00:00:00.000Z (only   *)
(* differences of instants are ever used by the code).  A Date is a record *)
(* [valid, t]; valid = FALSE is JavaScript's Invalid Date (time NaN).      *)
(* An optional number is <<>> (undefined) or <<n>>.  A query text is a     *)
(* sequence of tokens: one-character tokens and whole words.               *)
(***************************************************************************)
EXTENDS Integers, Sequences, FiniteSets, TLC

VARIABLES
    input,        \* the arguments of the tool call (QueryLogsInput)
    now,          \* wall clock read by buildQueryContext (new Date())
    archiveNow,   \* wall clock read by shouldIncludeArchive (new Date())
    remote,       \* the remote API: its result rows and the answers it can give
    pc,           \* position of the call in the pipeline
    timeRange,    \* the range buildQueryContext resolved (before its check)
    context,      \* QueryContext, once built
    paging,       \* validatePagination's {page, limit} and calculateOffset
    request,      \* CoralogixQueryRequest sent to the client
    retryCount,   \* makeRequestWithRetry's retryCount
    elapsed,      \* ms since AbortSignal.timeout(...) was created in queryLogs
    delay,        \* the backoff delay being slept
    response,     \* the Response makeRequestWithRetry returned
    clientResult, \* CoralogixQueryResponse returned by queryLogs
    outcome,      \* "pending" | "ok" | "error"
    error,        \* the error thrown to the caller
    output,       \* QueryLogsOutput returned to the caller
    attemptLog,   \* history: one entry per call of fetch
    sleeps,       \* history: the delays slept, in order
    server,       \* the process: its environment, its client, how far start() got
    other         \* a second invocation, parked at one of its awaits

vars == << input, now, archiveNow, remote, pc, timeRange, context, paging, request,
           retryCount, elapsed, delay, response, clientResult, outcome,
           error, output, attemptLog, sleeps, server, other >>

(***************************************************************************)
(* config/limits.ts                                                        *)
(***************************************************************************)
DEFAULT_LIMIT == 20
MAX_LIMIT == 50
MIN_LIMIT == 1
MAX_TIME_WINDOW_HOURS == 24
MAX_PAGES == 100
REQUEST_TIMEOUT_MS == 30000
MAX_RETRIES == 3
RETRY_DELAY_MS == 1000

TIMEFRAME_MAP ==
    [tf \in {"15m", "1h", "6h", "24h"} |->
        CASE tf = "15m" -> 15 * 60 * 1000
          [] tf = "1h"  -> 60 * 60 * 1000
          [] tf = "6h"  -> 6 * 60 * 60 * 1000
          [] tf = "24h" -> 24 * 60 * 60 * 1000]

(***************************************************************************)
(* Bounds of the model                                                     *)
(***************************************************************************)
\* number of rows the remote holds for the query
MaxRemoteLogs == 7
\* longest error body the remote sends (one more than the excerpt size)
MaxBodyLen == 501
\* cap on the number of fetch calls recorded for one call of queryLogs
MaxAttemptLog == 6

(***************************************************************************)
(* JavaScript helpers                                                      *)
(***************************************************************************)
Min(a, b) == IF a < b THEN a ELSE b

Max(a, b) == IF a > b THEN a ELSE b

\* x || d for an optional number: undefined and 0 are falsy
OrDefault(x, d) == IF x = <<>> \/ x[1] = 0 THEN d ELSE x[1]

\* !s for an optional string: undefined and "" are falsy
Falsy(s) == s \in {"undefined", ""}

\* Array.prototype.slice(a, b) with 0 <= a <= b, on a 1-based sequence
Slice(s, a, b) == SubSeq(s, a + 1, Min(b, Len(s)))

InvalidDate == [valid |-> FALSE, t |-> 0]

DateOf(t) == [valid |-> TRUE, t |-> t]

\* the date strings of the model and the instants new Date(s) gives them
ISO_TABLE ==
    [s \in {"2024-01-15T09:00:00Z", "2024-01-15T10:00:00Z",
            "2024-01-15T11:00:00Z", "2024-01-16T10:00:00Z",
            "2024-01-16T10:00:00.001Z"} |->
        CASE s = "2024-01-15T09:00:00Z"     -> 9 * 3600000
          [] s = "2024-01-15T10:00:00Z"     -> 10 * 3600000
          [] s = "2024-01-15T11:00:00Z"     -> 11 * 3600000
          [] s = "2024-01-16T10:00:00Z"     -> 34 * 3600000
          [] s = "2024-01-16T10:00:00.001Z" -> 34 * 3600000 + 1]

\* new Date(s): any other string is unparsable and gives Invalid Date
DateParse(s) == IF s \in DOMAIN ISO_TABLE THEN DateOf(ISO_TABLE[s]) ELSE InvalidDate

\* a.getTime() - b.getTime() > ms ; any comparison with NaN is false
DiffGreater(a, b, ms) == a.valid /\ b.valid /\ a.t - b.t > ms

\* a.getTime() < b.getTime()
TimeLess(a, b) == a.valid /\ b.valid /\ a.t < b.t

\* new Date(d.getTime() - ms)
DateMinus(d, ms) == IF d.valid THEN DateOf(d.t - ms) ELSE InvalidDate

(***************************************************************************)
(* Query text.  Word tokens stand for runs of \w characters; the others    *)
(* are single non-word characters.                                         *)
(***************************************************************************)
WordTokens ==
    {"w", "logs", "source", "filter", "limit", "LIMIT", "sort", "choose",
     "extract", "groupby", "summarize", "contains", "startswith",
     "endswith", "50"}

OtherTokens == {" ", "|", ":", "(", "\"", "*"}

\* String.prototype.toLowerCase, token by token (also the regexes' i flag)
Lower(t) == IF t = "LIMIT" THEN "limit" ELSE t

LowerAll(q) == [i \in 1..Len(q) |-> Lower(q[i])]

IsWord(t) == t \in WordTokens

IsSpace(t) == t = " "

RECURSIVE SkipSpaces(_, _)
\* index of the first token at or after i that \s does not match
SkipSpaces(q, i) ==
    IF i <= Len(q) /\ IsSpace(q[i]) THEN SkipSpaces(q, i + 1) ELSE i

RECURSIVE SkipWords(_, _)
\* index of the first token at or after i that \w does not match
SkipWords(q, i) ==
    IF i <= Len(q) /\ IsWord(q[i]) THEN SkipWords(q, i + 1) ELSE i

\* /\|\s*kw\b/i
MatchesPipeKeyword(q, kw) ==
    \E i \in 1..Len(q) :
        /\ q[i] = "|"
        /\ LET j == SkipSpaces(q, i + 1)
           IN  /\ j <= Len(q)
               /\ Lower(q[j]) = kw
               /\ (j = Len(q) \/ ~IsWord(q[j + 1]))

MatchesSourcePipe_Never(q) == FALSE

\* /\bsource\s+\w+\s*\|/i
MatchesSourcePipe(q) ==
    \E i \in 1..Len(q) :
        /\ Lower(q[i]) = "source"
        /\ (i = 1 \/ ~IsWord(q[i - 1]))
        /\ i < Len(q) /\ IsSpace(q[i + 1])
        /\ LET j == SkipSpaces(q, i + 1)
               k == SkipWords(q, j)
               m == SkipSpaces(q, k)
           IN  k > j /\ m <= Len(q) /\ q[m] = "|"

\* /\s+kw\s+/i
MatchesTextRelation(q, kw) ==
    \E i \in 2..(Len(q) - 1) :
        IsSpace(q[i - 1]) /\ Lower(q[i]) = kw /\ IsSpace(q[i + 1])

PipeKeywords ==
    {"filter", "limit", "sort", "choose", "extract", "groupby", "summarize"}

TextRelations == {"contains", "startswith", "endswith"}

detectQuerySyntax(q) ==
    IF \/ MatchesSourcePipe(q)
       \/ \E kw \in PipeKeywords : MatchesPipeKeyword(q, kw)
       \/ \E kw \in TextRelations : MatchesTextRelation(q, kw)
    THEN "dataprime"
    ELSE "lucene"

RECURSIVE TrimStart(_)
TrimStart(q) ==
    IF q # <<>> /\ IsSpace(Head(q)) THEN TrimStart(Tail(q)) ELSE q

RECURSIVE TrimEnd(_)
TrimEnd(q) ==
    IF q # <<>> /\ IsSpace(q[Len(q)]) THEN TrimEnd(SubSeq(q, 1, Len(q) - 1)) ELSE q

\* String.prototype.trim
Trim(q) == TrimEnd(TrimStart(q))

\* String.prototype.includes for a one-character needle
IncludesToken(q, t) == \E i \in 1..Len(q) : q[i] = t

\* String.prototype.includes: sub occurs as a contiguous run of q
Includes(q, sub) ==
    \E i \in 1..(Len(q) - Len(sub) + 1) : SubSeq(q, i, i + Len(sub) - 1) = sub

optimizeLuceneQuery_AlwaysWrap(q) ==
    LET optimized == Trim(q)
    IN  IF optimized = <<"*">> \/ optimized = <<>>
        THEN optimized
        ELSE <<"\"">> \o optimized \o <<"\"">>

optimizeLuceneQuery(q) ==
    LET optimized == Trim(q)
    IN  IF optimized = <<"*">> \/ optimized = <<>>
        THEN optimized
        ELSE IF /\ ~IncludesToken(optimized, ":")
                /\ ~IncludesToken(optimized, "(")
                /\ ~IncludesToken(optimized, "\"")
             THEN <<"\"">> \o optimized \o <<"\"">>
             ELSE optimized

\* the text ` | limit ${MCP_LIMITS.MAX_LIMIT}`
LimitSuffix == <<" ", "|", " ", "limit", " ", "50">>

optimizeDataPrimeQuery(q) ==
    LET optimized == Trim(q)
    IN  IF ~Includes(LowerAll(optimized), <<"|", " ", "limit">>)
        THEN optimized \o LimitSuffix
        ELSE optimized

optimizeQuery(q, syntax) ==
    IF syntax = "lucene" THEN optimizeLuceneQuery(q) ELSE optimizeDataPrimeQuery(q)

(***************************************************************************)
(* QueryProcessor: context and pagination                                  *)
(***************************************************************************)
\* Math.min(Math.max(limit || DEFAULT_LIMIT, MIN_LIMIT), MAX_LIMIT)
ResolveLimit(limit) ==
    Min(Max(OrDefault(limit, DEFAULT_LIMIT), MIN_LIMIT), MAX_LIMIT)

RangeTooWide_Inclusive(startTime, endTime) ==
    startTime.valid /\ endTime.valid
    /\ endTime.t - startTime.t >= MAX_TIME_WINDOW_HOURS * 60 * 60 * 1000

\* endTime.getTime() - startTime.getTime() > maxTimeRange
RangeTooWide(startTime, endTime) ==
    DiffGreater(endTime, startTime, MAX_TIME_WINDOW_HOURS * 60 * 60 * 1000)

shouldIncludeArchive_Inclusive(startTime, t1) ==
    startTime.valid /\ startTime.t <= t1 - 24 * 60 * 60 * 1000

ResolveTimeRange_DatesOnlyCustom(inp, t0) ==
    IF inp.timeframe = "custom"
    THEN [start |-> DateParse(inp.startDate), end |-> DateParse(inp.endDate)]
    ELSE [start |-> DateOf(t0 - TIMEFRAME_MAP["1h"]), end |-> DateOf(t0)]

\* shouldIncludeArchive, reading the clock again (t1)
shouldIncludeArchive(startTime, t1) ==
    TimeLess(startTime, DateMinus(DateOf(t1), 24 * 60 * 60 * 1000))

\* the time range buildQueryContext resolves from the input at clock t0
ResolveTimeRange(inp, t0) ==
    IF ~Falsy(inp.timeframe) /\ inp.timeframe # "custom"
    THEN [start |-> IF inp.timeframe \in DOMAIN TIMEFRAME_MAP
                    THEN DateOf(t0 - TIMEFRAME_MAP[inp.timeframe])
                    ELSE InvalidDate,
          end   |-> DateOf(t0)]
    ELSE IF ~Falsy(inp.startDate) /\ ~Falsy(inp.endDate)
         THEN [start |-> DateParse(inp.startDate), end |-> DateParse(inp.endDate)]
         ELSE [start |-> DateOf(t0 - TIMEFRAME_MAP["1h"]), end |-> DateOf(t0)]

\* buildQueryContext(input) with the clock reading t0 in buildQueryContext
\* and t1 >= t0 in shouldIncludeArchive
buildQueryContext(inp, t0, t1) ==
    LET range == ResolveTimeRange(inp, t0)
    IN  IF RangeTooWide(range.start, range.end)
        THEN [threw |-> TRUE, range |-> range]
        ELSE [threw |-> FALSE, range |-> range,
              originalQuery  |-> inp.query[1],
              detectedSyntax |-> detectQuerySyntax(inp.query[1]),
              limit          |-> ResolveLimit(inp.limit),
              includeArchive |-> shouldIncludeArchive(range.start, t1)]

PageTooHigh_Inclusive(validatedPage) == validatedPage >= MAX_PAGES

PageTooHigh_Never(validatedPage) == FALSE

\* validatedPage > MCP_LIMITS.MAX_PAGES
PageTooHigh(validatedPage) == validatedPage > MAX_PAGES

validatePagination(page, limit) ==
    LET validatedPage == Max(1, OrDefault(page, 1))
    IN  IF PageTooHigh(validatedPage)
        THEN [threw |-> TRUE, page |-> validatedPage, limit |-> ResolveLimit(limit)]
        ELSE [threw |-> FALSE, page |-> validatedPage, limit |-> ResolveLimit(limit)]

calculateOffset_NoMinusOne(page, limit) == Max(0, page * limit)

calculateOffset(page, limit) == Max(0, (page - 1) * limit)

(***************************************************************************)
(* ResponseProcessor.  A message text is [lineLens, stack]: the lengths of *)
(* its lines (already trimmed) and whether isStackTrace matches it.        *)
(***************************************************************************)
MAX_MESSAGE_LENGTH == 1000
MAX_STACK_TRACE_LINES == 5

RECURSIVE SumLens(_)
SumLens(ls) == IF ls = <<>> THEN 0 ELSE Head(ls) + SumLens(Tail(ls))

\* text.length: the lines and the newlines between them
TextLength(text) ==
    IF text.lineLens = <<>> THEN 0 ELSE SumLens(text.lineLens) + Len(text.lineLens) - 1

\* String(n).length for 0 <= n < 10000
Digits(n) == IF n < 10 THEN 1 ELSE IF n < 100 THEN 2 ELSE IF n < 1000 THEN 3 ELSE 4

truncateStackTrace_OneMoreLine(text) ==
    LET lines          == text.lineLens
        errorLine      == <<Head(lines)>>
        stackLines     == Slice(lines, 1, MAX_STACK_TRACE_LINES + 1)
        remainingLines == Len(lines) - MAX_STACK_TRACE_LINES
        joined         == IF stackLines = <<>> THEN <<0>> ELSE stackLines
    IN  IF remainingLines > 0
        THEN [lineLens |-> errorLine \o joined \o <<19 + Digits(remainingLines)>>,
              stack |-> text.stack]
        ELSE [lineLens |-> errorLine \o joined, stack |-> text.stack]

truncateStackTrace(text) ==
    LET lines          == text.lineLens
        errorLine      == <<Head(lines)>>
        stackLines     == Slice(lines, 1, MAX_STACK_TRACE_LINES)
        remainingLines == Len(lines) - MAX_STACK_TRACE_LINES
        \* joining no stack line still leaves the (empty) line after "\n"
        joined         == IF stackLines = <<>> THEN <<0>> ELSE stackLines
    IN  IF remainingLines > 0
        THEN [lineLens |-> errorLine \o joined \o <<19 + Digits(remainingLines)>>,
              stack |-> text.stack]
        ELSE [lineLens |-> errorLine \o joined, stack |-> text.stack]

intelligentTruncate(text) ==
    IF text.stack
    THEN truncateStackTrace(text)
    ELSE IF TextLength(text) > MAX_MESSAGE_LENGTH
         THEN LET preserveStart == (MAX_MESSAGE_LENGTH * 7) \div 10
                  preserveEnd   == MAX_MESSAGE_LENGTH - preserveStart - 10
              IN  [lineLens |-> <<preserveStart + 5 + preserveEnd>>, stack |-> FALSE]
         ELSE text

processMessage(text) ==
    IF TextLength(text) = 0
    THEN [lineLens |-> <<>>, stack |-> FALSE]
    ELSE IF TextLength(text) > MAX_MESSAGE_LENGTH
         THEN intelligentTruncate(text)
         ELSE text

\* severity?.toUpperCase().trim(), then severityMap[...] || ... || "UNKNOWN"
normalizeSeverity(severity) ==
    CASE severity = "info"     -> "INFO"
      [] severity = "warning"  -> "WARN"
      [] severity = "err"      -> "ERROR"
      [] severity = "critical" -> "FATAL"
      [] severity = "notice"   -> "NOTICE"
      [] severity = ""         -> "UNKNOWN"

processLogEntry(log) ==
    [timestamp |-> log.timestamp,
     severity  |-> normalizeSeverity(log.severity),
     message   |-> processMessage(log.text)]

processLogs_AnyRecord(logs, ctx, page, totalResults) ==
    LET processedLogs == [i \in 1..Len(logs) |-> processLogEntry(logs[i])]
    IN  [totalResults      |-> IF totalResults = 0 THEN Len(logs) ELSE totalResults,
         resultsShown      |-> Len(processedLogs),
         page              |-> page,
         hasNextPage       |-> Len(logs) > 0,
         queryType         |-> ctx.detectedSyntax,
         logs              |-> processedLogs,
         currentPage       |-> page,
         nextPageAvailable |-> Len(logs) > 0]

processLogs(logs, ctx, page, totalResults) ==
    LET processedLogs == [i \in 1..Len(logs) |-> processLogEntry(logs[i])]
    IN  [totalResults      |-> IF totalResults = 0 THEN Len(logs) ELSE totalResults,
         resultsShown      |-> Len(processedLogs),
         page              |-> page,
         hasNextPage       |-> Len(logs) = ctx.limit,
         queryType         |-> ctx.detectedSyntax,
         logs              |-> processedLogs,
         currentPage       |-> page,
         nextPageAvailable |-> Len(logs) = ctx.limit]

(***************************************************************************)
(* The remote API.  Row i of its result carries timestamp i.               *)
(***************************************************************************)
RemoteLog(i) ==
    [timestamp |-> i,
     severity  |-> IF i % 2 = 0 THEN "info" ELSE "warning",
     text      |-> [lineLens |-> <<10 + i>>, stack |-> FALSE]]

RemoteLogs == [i \in 1..MaxRemoteLogs |-> RemoteLog(i)]

\* the rows the remote returns for a request asking for n rows
RemoteRows(logs, n) == SubSeq(logs, 1, Min(n, Len(logs)))

\* how long the remote takes to answer (ms)
Durations == {100, 14000}

RetryStatuses == {429, 500, 503}

TerminalStatuses == {400, 404}

BodyLens == {0, 500, MaxBodyLen}

FailureAnswers ==
    [kind : {"failure"}, cause : {"network"}, status : {0}, body : {"none"},
     bodyLen : {0}, contentType : {"null"}, dur : Durations]

ErrorAnswers ==
    [kind : {"http"}, cause : {"none"}, status : RetryStatuses \cup TerminalStatuses,
     body : {"text"}, bodyLen : BodyLens, contentType : {"application/json"},
     dur : Durations]

OkAnswers ==
    [kind : {"http"}, cause : {"none"}, status : {200},
     body : {"result", "logs", "empty", "malformed"}, bodyLen : {0},
     contentType : {"application/json"}, dur : Durations]

\* 200 bodies of several lines, and one JSON object written over several lines
NdjsonBodies ==
    {"result", "logs", "logs+result", "result+logs", "result+result",
     "logs+logs", "empty", "logsPretty", "blank", "scalar", "null",
     "result+null"}

\* the answers a remote of the given profile can give to one request
Answers(profile) ==
    CASE profile = "any" -> FailureAnswers \cup ErrorAnswers \cup OkAnswers
      [] profile = "ndjson" ->
            [kind : {"http"}, cause : {"none"}, status : {200}, body : NdjsonBodies,
             bodyLen : {0}, contentType : {"application/json"}, dur : {100}]
            \cup [kind : {"http"}, cause : {"none"}, status : {200},
                  body : {"malformed"}, bodyLen : {500, MaxBodyLen},
                  contentType : {"application/json", "null"}, dur : {100}]
            \cup {a \in ErrorAnswers : a.dur = 100 /\ a.status = 503 /\ a.bodyLen = 0}
      [] OTHER ->
            {a \in OkAnswers : a.dur = 100 /\ a.body \in {"result", "logs"}}
            \cup {a \in ErrorAnswers : a.dur = 100 /\ a.status = 503 /\ a.bodyLen = 0}

\* index.ts: keys of CORALOGIX_DOMAINS, and keys every object inherits
CORALOGIX_DOMAINS == {"US1", "US2", "EU1", "EU2", "AP1", "AP2", "AP3"}

InheritedKeys == {"toString", "constructor"}

\* what fetch can settle with: under a base URL that is no URL (a domain
\* key that CORALOGIX_DOMAINS only inherits) fetch rejects, whatever the remote
AnswersAt(domain, profile) ==
    IF domain \in CORALOGIX_DOMAINS
    THEN Answers(profile)
    ELSE {a \in FailureAnswers : a.dur = 100}

\* the lines of a 200 body, as JSON.parse gives them ("bad": not valid JSON)
BodyLines(body, rows) ==
    LET queryIdLine == [kind |-> "queryId", rows |-> <<>>, total |-> 0]
        resultLine(r) == [kind |-> "result", rows |-> r, total |-> 0]
        logsLine(r) == [kind |-> "logs", rows |-> r, total |-> Len(r)]
        badLine == [kind |-> "bad", rows |-> <<>>, total |-> 0]
        rest == IF rows = <<>> THEN <<>> ELSE Tail(rows)
    IN  CASE body = "result"        -> <<queryIdLine, resultLine(rows)>>
          [] body = "logs"          -> <<logsLine(rows)>>
          [] body = "empty"         -> <<queryIdLine>>
          [] body = "malformed"     -> <<queryIdLine, badLine>>
          [] body = "logs+result"   -> <<logsLine(rest), resultLine(rows)>>
          [] body = "result+logs"   -> <<queryIdLine, resultLine(rows), logsLine(rest)>>
          [] body = "result+result" -> <<resultLine(rows), resultLine(rest)>>
          [] body = "logs+logs"     -> <<queryIdLine, logsLine(rows), logsLine(rest)>>
          \* {"logs": [...]} pretty-printed: "{", "\"logs\": [", ..., "}"
          [] body = "logsPretty"    -> <<badLine, badLine, badLine, badLine>>
          \* lines that are JSON values without keys: 5, "x", true; null
          [] body = "scalar"        -> <<queryIdLine, [kind |-> "scalar", rows |-> <<>>, total |-> 0]>>
          [] body = "null"          -> <<queryIdLine, [kind |-> "null", rows |-> <<>>, total |-> 0]>>
          [] body = "result+null"   -> <<resultLine(rows), [kind |-> "null", rows |-> <<>>, total |-> 0]>>
          \* "blank": an empty body has no line left after the filter
          [] OTHER                  -> <<>>

(***************************************************************************)
(* CoralogixClient                                                         *)
(***************************************************************************)
NoError == [kind |-> "none", status |-> 0, excerptLen |-> 0, cause |-> "none"]

ErrorOf(kind) == [kind |-> kind, status |-> 0, excerptLen |-> 0, cause |-> "none"]

\* the signal of AbortSignal.timeout(REQUEST_TIMEOUT_MS) at age e
Aborted(e) == e >= REQUEST_TIMEOUT_MS

\* what fetch(url, options) settles to when issued at signal age e and the
\* remote would give answer a: an aborted signal rejects without sending,
\* a signal that fires while the request is in flight rejects it
Settle(a, e) ==
    IF Aborted(e)
    THEN [kind |-> "failure", cause |-> "timeout", status |-> 0, body |-> "none",
          bodyLen |-> 0, contentType |-> "null", sent |-> FALSE, at |-> e]
    ELSE IF e + a.dur >= REQUEST_TIMEOUT_MS
         THEN [kind |-> "failure", cause |-> "timeout", status |-> 0, body |-> "none",
               bodyLen |-> 0, contentType |-> "null", sent |-> TRUE,
               at |-> REQUEST_TIMEOUT_MS]
         ELSE [kind |-> a.kind, cause |-> a.cause, status |-> a.status, body |-> a.body,
               bodyLen |-> a.bodyLen, contentType |-> a.contentType, sent |-> TRUE,
               at |-> e + a.dur]

ShouldRetryStatus_AnyError(status, count) == status >= 400 /\ count < MAX_RETRIES

\* (response.status === 429 || response.status >= 500) && retryCount < MAX_RETRIES
ShouldRetryStatus(status, count) ==
    (status = 429 \/ status >= 500) /\ count < MAX_RETRIES

ShouldRetryFailure_Always(count) == TRUE

\* retryCount < MCP_LIMITS.MAX_RETRIES, in the catch of makeRequestWithRetry
ShouldRetryFailure(count) == count < MAX_RETRIES

BackoffDelay_Linear(count) == RETRY_DELAY_MS * (count + 1)

\* MCP_LIMITS.RETRY_DELAY_MS * Math.pow(2, retryCount)
BackoffDelay(count) == RETRY_DELAY_MS * 2 ^ count

\* the retryCount + 1 passed to the recursive call
NextRetryCount(count) == count + 1

ResponseOk_NotClientError(status) == status \in 200..299 \/ status >= 500

\* response.ok
ResponseOk(status) == status \in 200..299

ErrorExcerpt_Whole(bodyLen) == bodyLen

\* responseText.substring(0, 500).length
ErrorExcerpt(bodyLen) == Min(bodyLen, 500)

ParseErrorOf_WithPreview(resp) ==
    [kind |-> "ParseError", status |-> 0, excerptLen |-> Min(resp.bodyLen, 500),
     cause |-> "none", contentType |-> resp.contentType, lines |-> Len(resp.lines)]

\* the Error thrown from the catch of the parsing: content type, number of
\* lines and the parser's message; responsePreview is only in console.warn
ParseErrorOf(resp) ==
    [kind |-> "ParseError", status |-> 0, excerptLen |-> 0, cause |-> "none",
     contentType |-> resp.contentType, lines |-> Len(resp.lines)]

\* parsedObjects.find(obj => obj.result) reads a property of every line up
\* to its first match: on a line that is the JSON value null this is a
\* TypeError, caught by the same catch as a JSON.parse error
NullBeforeResult(lines) ==
    \E i \in 1..Len(lines) :
        /\ lines[i].kind = "null"
        /\ \A j \in 1..(i - 1) : lines[j].kind # "result"

ParseResponse_LogsFirst(lines) ==
    IF \/ \E i \in 1..Len(lines) : lines[i].kind = "bad"
       \/ NullBeforeResult(lines)
    THEN [threw |-> TRUE, logs |-> <<>>, total |-> 0]
    ELSE LET results == {i \in 1..Len(lines) : lines[i].kind = "result"}
             olds    == {i \in 1..Len(lines) : lines[i].kind = "logs"}
             First(S) == CHOOSE i \in S : \A j \in S : i <= j
         IN  IF olds # {}
             THEN [threw |-> FALSE, logs |-> lines[First(olds)].rows,
                   total |-> lines[First(olds)].total]
             ELSE IF results # {}
                  THEN [threw |-> FALSE, logs |-> lines[First(results)].rows,
                        total |-> Len(lines[First(results)].rows)]
                  ELSE [threw |-> FALSE, logs |-> <<>>, total |-> 0]

\* the parsing of a 200 body in queryLogs
ParseResponse(lines) ==
    IF \/ \E i \in 1..Len(lines) : lines[i].kind = "bad"
       \/ NullBeforeResult(lines)
    THEN [threw |-> TRUE, logs |-> <<>>, total |-> 0]
    ELSE LET results == {i \in 1..Len(lines) : lines[i].kind = "result"}
             olds    == {i \in 1..Len(lines) : lines[i].kind = "logs"}
             First(S) == CHOOSE i \in S : \A j \in S : i <= j
         IN  IF results # {}
             THEN [threw |-> FALSE, logs |-> lines[First(results)].rows,
                   total |-> Len(lines[First(results)].rows)]
             ELSE IF olds # {}
                  THEN [threw |-> FALSE, logs |-> lines[First(olds)].rows,
                        total |-> lines[First(olds)].total]
                  ELSE [threw |-> FALSE, logs |-> <<>>, total |-> 0]

(***************************************************************************)
(* The call: state before the handler runs                                 *)
(***************************************************************************)
NoRange == [start |-> InvalidDate, end |-> InvalidDate]

NoContext == [threw |-> TRUE, range |-> NoRange]

NoPaging == [page |-> 0, limit |-> 0, offset |-> 0]

NoRequest ==
    [query |-> <<>>, syntax |-> "none", startDate |-> 0, endDate |-> 0,
     limit |-> 0, includeArchive |-> FALSE]

NoResponse ==
    [status |-> 0, body |-> "none", bodyLen |-> 0, contentType |-> "null",
     lines |-> <<>>]

NoClientResult == [logs |-> <<>>, total |-> 0]

NoOutput ==
    [totalResults |-> 0, resultsShown |-> 0, page |-> 0, hasNextPage |-> FALSE,
     queryType |-> "none", logs |-> <<>>, currentPage |-> 0,
     nextPageAvailable |-> FALSE]

\* how far the clock can move between the two new Date() of buildQueryContext
ClockAdvances == {0, 5}

LuceneQuery == <<"w", ":", "w">>

DataPrimeQuery == <<"source", " ", "logs", " ", "|", " ", "filter", " ", "w">>

\* domain in CORALOGIX_DOMAINS: the in operator also finds inherited keys
DomainIn(domain) == domain \in CORALOGIX_DOMAINS \cup InheritedKeys

\* initializeCoralogixClient does not throw
ConfigAccepted(apiKey, domain) ==
    ~Falsy(apiKey) /\ ~Falsy(domain) /\ DomainIn(domain)

\* the process before start() has run, with its environment
StartingServer(apiKey, domain) ==
    [state |-> "starting", apiKey |-> apiKey, domain |-> domain,
     client |-> FALSE, exitCode |-> -1]

\* the process after start() has completed
ServingServer ==
    [state |-> "serving", apiKey |-> "key", domain |-> "EU1",
     client |-> TRUE, exitCode |-> -1]

NoCall == [pc |-> "none"]

StartWith(inputs, clocks, remotes, servers, others) ==
    /\ input \in inputs
    /\ now \in clocks
    /\ archiveNow = now
    /\ remote \in remotes
    /\ server \in servers
    /\ other \in others
    /\ pc = "handler"
    /\ timeRange = NoRange
    /\ context = NoContext
    /\ paging = NoPaging
    /\ request = NoRequest
    /\ retryCount = 0
    /\ elapsed = 0
    /\ delay = 0
    /\ response = NoResponse
    /\ clientResult = NoClientResult
    /\ outcome = "pending"
    /\ error = NoError
    /\ output = NoOutput
    /\ attemptLog = <<>>
    /\ sleeps = <<>>

StartRemote(inputs, clocks, remotes) ==
    StartWith(inputs, clocks, remotes, {ServingServer}, {NoCall})

Start(inputs, clocks, profile) ==
    StartRemote(inputs, clocks, {[logs |-> RemoteLogs, profile |-> profile]})

\* the call ends with the error thrown to the caller
Throw(e) ==
    /\ pc' = "done"
    /\ outcome' = "error"
    /\ error' = e

(***************************************************************************)
(* createQueryLogsHandler: validation of the tool arguments                *)
(***************************************************************************)
HandleToolCall ==
    /\ pc = "handler"
    /\ server.state = "serving"
    /\ UNCHANGED << server, other >>
    /\ IF ~server.client
       THEN \* index.ts: "Coralogix client not initialized"
            Throw(ErrorOf("NotInitialized"))
       ELSE IF input.query = <<>> \/ input.query[1] = <<>>
       THEN Throw(ErrorOf("InvalidInput"))
       ELSE IF input.timeframe = "custom"
               /\ (Falsy(input.startDate) \/ Falsy(input.endDate))
            THEN Throw(ErrorOf("InvalidInput"))
            ELSE pc' = "build" /\ UNCHANGED << outcome, error >>
    /\ UNCHANGED << input, now, archiveNow, remote, timeRange, context, paging, request,
                    retryCount, elapsed, delay, response, clientResult,
                    output, attemptLog, sleeps >>

(***************************************************************************)
(* executeQueryLogs: QueryProcessor.buildQueryContext(input)               *)
(***************************************************************************)
BuildContext ==
    /\ pc = "build"
    /\ UNCHANGED << server, other >>
    /\ \E advance \in ClockAdvances :
        LET built == buildQueryContext(input, now, now + advance)
        IN  /\ archiveNow' = now + advance
            /\ timeRange' = built.range
            /\ context' = built
            /\ IF built.threw
               THEN Throw(ErrorOf("RangeTooWide"))
               ELSE pc' = "paginate" /\ UNCHANGED << outcome, error >>
    /\ UNCHANGED << input, now, remote, paging, request, retryCount, elapsed,
                    delay, response, clientResult, output, attemptLog, sleeps >>

(***************************************************************************)
(* executeQueryLogs: validatePagination and calculateOffset                *)
(***************************************************************************)
ValidatePage ==
    /\ pc = "paginate"
    /\ UNCHANGED << server, other >>
    /\ LET v == validatePagination(input.page, input.limit)
       IN  IF v.threw
           THEN /\ paging' = [page |-> v.page, limit |-> v.limit, offset |-> 0]
                /\ Throw(ErrorOf("PageOutOfRange"))
           ELSE /\ paging' = [page |-> v.page, limit |-> v.limit,
                              offset |-> calculateOffset(v.page, v.limit)]
                /\ pc' = "request"
                /\ UNCHANGED << outcome, error >>
    /\ UNCHANGED << input, now, archiveNow, remote, timeRange, context, request, retryCount,
                    elapsed, delay, response, clientResult, output, attemptLog,
                    sleeps >>

(***************************************************************************)
(* executeQueryLogs: the request, handed to CoralogixClient.queryLogs,     *)
(* which creates the abort signal and calls makeRequestWithRetry           *)
(***************************************************************************)
SendRequest ==
    /\ pc = "request"
    /\ UNCHANGED << server, other >>
    /\ IF ~context.range.start.valid \/ ~context.range.end.valid
       THEN \* Date.prototype.toISOString throws RangeError on an Invalid Date
            /\ Throw(ErrorOf("InvalidTime"))
            /\ UNCHANGED request
       ELSE /\ request' =
                 [query          |-> optimizeQuery(context.originalQuery,
                                                   context.detectedSyntax),
                  syntax         |-> IF context.detectedSyntax = "lucene"
                                     THEN "QUERY_SYNTAX_LUCENE"
                                     ELSE "QUERY_SYNTAX_DATAPRIME",
                  startDate      |-> context.range.start.t,
                  endDate        |-> context.range.end.t,
                  limit          |-> paging.limit + paging.offset,
                  includeArchive |-> context.includeArchive]
            /\ pc' = "fetch"
            /\ UNCHANGED << outcome, error >>
    /\ retryCount' = 0
    /\ elapsed' = 0
    /\ UNCHANGED << input, now, archiveNow, remote, timeRange, context, paging, delay,
                    response, clientResult, output, attemptLog, sleeps >>

(***************************************************************************)
(* makeRequestWithRetry: one fetch and what follows it, up to the next     *)
(* await                                                                   *)
(***************************************************************************)
Fetch ==
    /\ pc = "fetch"
    /\ UNCHANGED << server, other >>
    /\ Len(attemptLog) < MaxAttemptLog
    /\ \E a \in AnswersAt(server.domain, remote.profile) :
        LET r     == Settle(a, elapsed)
            retry == IF r.kind = "http"
                     THEN ShouldRetryStatus(r.status, retryCount)
                     ELSE ShouldRetryFailure(retryCount)
        IN  /\ attemptLog' = Append(attemptLog,
                   [retryCount |-> retryCount, sent |-> r.sent,
                    budget |-> Max(0, REQUEST_TIMEOUT_MS - elapsed),
                    kind |-> r.kind, status |-> r.status, cause |-> r.cause,
                    body |-> r.body])
            /\ elapsed' = r.at
            /\ IF retry
               THEN /\ delay' = BackoffDelay(retryCount)
                    /\ pc' = "sleep"
                    /\ UNCHANGED << response, outcome, error >>
               ELSE IF r.kind = "http"
                    THEN /\ response' =
                              [status |-> r.status, body |-> r.body,
                               bodyLen |-> r.bodyLen,
                               contentType |-> r.contentType,
                               lines |-> BodyLines(r.body,
                                            RemoteRows(remote.logs, request.limit))]
                         /\ pc' = "respond"
                         /\ UNCHANGED << delay, outcome, error >>
                    ELSE /\ Throw([kind |-> "Transport", status |-> 0,
                                   excerptLen |-> 0, cause |-> r.cause])
                         /\ UNCHANGED << delay, response >>
    /\ UNCHANGED << input, now, archiveNow, remote, timeRange, context, paging, request,
                    retryCount, clientResult, output, sleeps >>

(***************************************************************************)
(* makeRequestWithRetry: the backoff sleep, then the recursive call        *)
(***************************************************************************)
Sleep ==
    /\ pc = "sleep"
    /\ UNCHANGED << server, other >>
    /\ elapsed' = elapsed + delay
    /\ sleeps' = Append(sleeps, delay)
    /\ retryCount' = NextRetryCount(retryCount)
    /\ delay' = 0
    /\ pc' = "fetch"
    /\ UNCHANGED << input, now, archiveNow, remote, timeRange, context, paging, request,
                    response, clientResult, outcome, error, output, attemptLog >>

(***************************************************************************)
(* queryLogs: the response makeRequestWithRetry returned                   *)
(***************************************************************************)
HandleResponse ==
    /\ pc = "respond"
    /\ UNCHANGED << server, other >>
    /\ IF ~ResponseOk(response.status)
       THEN /\ Throw([kind |-> "ApiError", status |-> response.status,
                      excerptLen |-> ErrorExcerpt(response.bodyLen),
                      cause |-> "none"])
            /\ UNCHANGED clientResult
       ELSE LET parsed == ParseResponse(response.lines)
            IN  IF parsed.threw
                THEN Throw(ParseErrorOf(response)) /\ UNCHANGED clientResult
                ELSE /\ clientResult' = [logs |-> parsed.logs, total |-> parsed.total]
                     /\ pc' = "slice"
                     /\ UNCHANGED << outcome, error >>
    /\ UNCHANGED << input, now, archiveNow, remote, timeRange, context, paging, request,
                    retryCount, elapsed, delay, response, output, attemptLog,
                    sleeps >>

(***************************************************************************)
(* executeQueryLogs: the page of the result, normalized                    *)
(***************************************************************************)
ReturnPage ==
    /\ pc = "slice"
    /\ UNCHANGED << server, other >>
    /\ LET paginatedLogs ==
               Slice(clientResult.logs, paging.offset, paging.offset + paging.limit)
       IN  output' = processLogs(paginatedLogs, context, paging.page,
                                 clientResult.total)
    /\ outcome' = "ok"
    /\ pc' = "done"
    /\ UNCHANGED << input, now, archiveNow, remote, timeRange, context, paging, request,
                    retryCount, elapsed, delay, response, clientResult, error,
                    attemptLog, sleeps >>

Next ==
    \/ HandleToolCall
    \/ BuildContext
    \/ ValidatePage
    \/ SendRequest
    \/ Fetch
    \/ Sleep
    \/ HandleResponse
    \/ ReturnPage

(***************************************************************************)
(* index.ts: CoralogixMCPServer.start() and the signal handlers            *)
(***************************************************************************)
CallVars ==
    << input, archiveNow, timeRange, context, paging, request, retryCount,
       elapsed, delay, response, clientResult, outcome, error, output,
       attemptLog, sleeps >>

Exit(code) == server' = [server EXCEPT !.state = "exited", !.exitCode = code]

\* start(): initializeCoralogixClient(); a throw is caught and exits with 1
InitializeClient ==
    /\ server.state = "starting"
    /\ IF ConfigAccepted(server.apiKey, server.domain)
       THEN server' = [server EXCEPT !.state = "testing", !.client = TRUE]
       ELSE Exit(1)
    /\ UNCHANGED << CallVars, now, remote, pc, other >>

\* start(): await testConnection(); its result is only logged
TestConnection ==
    /\ server.state = "testing"
    /\ server' = [server EXCEPT !.state = "connecting"]
    /\ UNCHANGED << CallVars, now, remote, pc, other >>

\* start(): await this.server.connect(transport); a throw exits with 1
Connect ==
    /\ server.state = "connecting"
    /\ \E connected \in BOOLEAN :
          IF connected
          THEN server' = [server EXCEPT !.state = "serving"]
          ELSE Exit(1)
    /\ UNCHANGED << CallVars, now, remote, pc, other >>

\* process.on("SIGINT" | "SIGTERM"): exit with 0, abandoning a running call
Signal ==
    /\ server.state # "exited"
    /\ Exit(0)
    /\ pc' = IF pc = "done" THEN "done" ELSE "exited"
    /\ UNCHANGED << CallVars, now, remote, other >>

ServerNext ==
    \/ InitializeClient
    \/ TestConnection
    \/ Connect
    \/ Signal
    \/ Next

(***************************************************************************)
(* Two query_logs invocations of one process: the event loop runs one of   *)
(* them at a time and changes between them where the running one awaits    *)
(***************************************************************************)
\* the locals and parameters of the running invocation
Active ==
    [input |-> input,
     archiveNow |-> archiveNow,
     pc |-> pc,
     timeRange |-> timeRange,
     context |-> context,
     paging |-> paging,
     request |-> request,
     retryCount |-> retryCount,
     elapsed |-> elapsed,
     delay |-> delay,
     response |-> response,
     clientResult |-> clientResult,
     outcome |-> outcome,
     error |-> error,
     output |-> output,
     attemptLog |-> attemptLog,
     sleeps |-> sleeps]

\* an invocation the CallTool handler has not started yet
FreshCall(inp, clock) ==
    [input |-> inp,
     archiveNow |-> clock,
     pc |-> "handler",
     timeRange |-> NoRange,
     context |-> NoContext,
     paging |-> NoPaging,
     request |-> NoRequest,
     retryCount |-> 0,
     elapsed |-> 0,
     delay |-> 0,
     response |-> NoResponse,
     clientResult |-> NoClientResult,
     outcome |-> "pending",
     error |-> NoError,
     output |-> NoOutput,
     attemptLog |-> <<>>,
     sleeps |-> <<>>]

\* where an invocation awaits: fetch, sleep, response.text(), queryLogs
Suspended == {"fetch", "sleep", "respond", "slice", "done"}

ResumeFields(call) ==
    /\ input' = call.input
    /\ archiveNow' = call.archiveNow
    /\ pc' = call.pc
    /\ timeRange' = call.timeRange
    /\ context' = call.context
    /\ paging' = call.paging
    /\ request' = call.request
    /\ retryCount' = call.retryCount
    /\ elapsed' = call.elapsed
    /\ delay' = call.delay
    /\ response' = call.response
    /\ clientResult' = call.clientResult
    /\ outcome' = call.outcome
    /\ error' = call.error
    /\ output' = call.output
    /\ attemptLog' = call.attemptLog
    /\ sleeps' = call.sleeps

\* retryCount kept in the client instead of passed as a parameter
Resume_SharedRetryCount(call) ==
    ResumeFields([call EXCEPT !.retryCount = retryCount])

\* the continuation of a suspended invocation finds its own locals
Resume(call) == ResumeFields(call)

\* the running invocation awaits; the event loop runs the other one
Switch ==
    /\ server.state = "serving"
    /\ pc \in Suspended
    /\ other.pc \in {"handler"} \cup (Suspended \ {"done"})
    /\ Resume(other)
    /\ other' = Active
    /\ UNCHANGED << now, remote, server >>

PairNext ==
    \/ Switch
    \/ Next

(***************************************************************************)
(* Specifications                                                          *)
(***************************************************************************)
\* Spec: two well-formed calls against a remote that can answer anything
ClientInputs ==
    [query : {<<LuceneQuery>>}, timeframe : {"1h"},
     startDate : {"undefined"}, endDate : {"undefined"},
     limit : {<<2>>}, page : {<<1>>, <<2>>}]

Init == Start(ClientInputs, {34 * 3600000}, "any")

Spec == Init /\ [][Next]_vars

\* every request and every sleep completes; the rest is synchronous code
LiveSpec == Spec /\ WF_vars(Next)

\* CtxSpec: many inputs against a remote that answers 200 or 503, promptly
Queries == {<<LuceneQuery>>, <<DataPrimeQuery>>}

\* every way of giving the time range, with the default limit and page
RangeInputs ==
    [query : Queries,
     timeframe : {"undefined", "", "15m", "1h", "6h", "24h", "custom", "7d"},
     startDate : {"undefined", "", "2024-01-15T10:00:00Z", "2024-01-15T11:00:00Z",
                  "not-a-date"},
     endDate : {"undefined", "2024-01-15T11:00:00Z", "2024-01-15T09:00:00Z",
                "2024-01-16T10:00:00Z", "2024-01-16T10:00:00.001Z"},
     limit : {<<>>}, page : {<<>>}]

\* every limit and page, over the last hour
PageInputs ==
    [query : Queries, timeframe : {"1h"},
     startDate : {"undefined"}, endDate : {"undefined"},
     limit : {<<>>, <<0>>, <<1>>, <<2>>, <<3>>, <<50>>, <<200>>, <<-5>>},
     page : {<<>>, <<0>>, <<-1>>, <<1>>, <<2>>, <<3>>, <<4>>, <<100>>, <<101>>}]

\* calls without a usable query
NoQueryInputs ==
    [query : {<<>>, << <<>> >>}, timeframe : {"1h"},
     startDate : {"undefined"}, endDate : {"undefined"},
     limit : {<<>>}, page : {<<>>}]

CtxInputs == RangeInputs \cup PageInputs \cup NoQueryInputs

CtxInit == Start(CtxInputs, {34 * 3600000, 34 * 3600000 + 1}, "steady")

CtxSpec == CtxInit /\ [][Next]_vars

\* QuerySpec: every short query text, over the last hour
MaxQueryLen == 3

QueryAlphabet == {"|", " ", "limit", "LIMIT", "w", "source", "contains", ":"}

BoundedQueries == UNION {[1..n -> QueryAlphabet] : n \in 1..MaxQueryLen}

\* longer texts: pipelines with and without a limit stage, in the spacings
\* and letter cases the detector accepts
ExampleQueries ==
    {DataPrimeQuery,
     <<"source", " ", "logs", "|", "w">>,
     <<"source", " ", "logs", " ", "|", " ", "limit", " ", "50">>,
     <<"source", " ", "logs", " ", "|", "limit", " ", "50">>,
     <<"source", " ", "logs", " ", "|", " ", " ", "LIMIT", " ", "50">>,
     <<"w", " ", "|", " ", "limit", "w">>,
     <<" ", "w", " ", "startswith", " ", "w", " ">>,
     <<" ", "contains", " ", "|", " ", "limit", "w">>,
     <<" ", " ", "w", " ", "w", " ">>}

QueryInputs ==
    [query : {<<q>> : q \in BoundedQueries \cup ExampleQueries},
     timeframe : {"1h"}, startDate : {"undefined"}, endDate : {"undefined"},
     limit : {<<>>}, page : {<<>>}]

QueryInit == Start(QueryInputs, {34 * 3600000}, "steady")

QuerySpec == QueryInit /\ [][Next]_vars

\* ParseSpec: well-formed calls against a remote whose 200 bodies take
\* every shape of NdjsonBodies
ParseInputs ==
    [query : {<<LuceneQuery>>}, timeframe : {"1h"},
     startDate : {"undefined"}, endDate : {"undefined"},
     limit : {<<2>>, <<3>>}, page : {<<1>>, <<2>>}]

ParseInit == Start(ParseInputs, {34 * 3600000}, "ndjson")

ParseSpec == ParseInit /\ [][Next]_vars

\* ServerSpec: the process from its start, in every environment, with one
\* tool call waiting on stdin
Environments ==
    {StartingServer(k, d) :
        k \in {"undefined", "", "key"},
        d \in {"undefined", "", "EU1", "eu9", "toString"}}

ServerInputs ==
    NoQueryInputs
    \cup [query : {<<LuceneQuery>>}, timeframe : {"1h"},
          startDate : {"undefined"}, endDate : {"undefined"},
          limit : {<<2>>}, page : {<<1>>, <<101>>}]

ServerInit ==
    StartWith(ServerInputs, {34 * 3600000},
              {[logs |-> RemoteLogs, profile |-> "ndjson"]}, Environments, {NoCall})

ServerSpec == ServerInit /\ [][ServerNext]_vars

\* PairSpec: two invocations with different arguments against one remote
PairInputs ==
    {[query |-> <<LuceneQuery>>, timeframe |-> "1h", startDate |-> "undefined",
      endDate |-> "undefined", limit |-> <<2>>, page |-> <<1>>],
     [query |-> <<DataPrimeQuery>>, timeframe |-> "6h", startDate |-> "undefined",
      endDate |-> "undefined", limit |-> <<1>>, page |-> <<2>>]}

PairInit ==
    StartWith(PairInputs, {34 * 3600000},
              {[logs |-> RemoteLogs, profile |-> "steady"]}, {ServingServer},
              {FreshCall(inp, 34 * 3600000) : inp \in PairInputs})

PairSpec == PairInit /\ [][PairNext]_vars

\* MessageSpec: a remote whose single row carries a long or a short message
MaxStackLines == 8

PlainTexts ==
    {[lineLens |-> ls, stack |-> FALSE] :
        ls \in {<<10>>, <<1000>>, <<1001>>, <<3000>>, <<600, 600>>}}

StackTexts ==
    {[lineLens |-> [i \in 1..n |-> 200 + i], stack |-> TRUE] : n \in 1..MaxStackLines}
    \cup {[lineLens |-> ls, stack |-> TRUE] :
            ls \in {<<1500>>, <<300, 300, 300, 300>>, <<40, 2000, 40, 40, 40, 40, 40>>}}

MessageRemotes ==
    {[logs |-> <<[timestamp |-> 1, severity |-> "err", text |-> t]>>,
      profile |-> "steady"] : t \in PlainTexts \cup StackTexts}

MessageInit == StartRemote(ClientInputs, {34 * 3600000}, MessageRemotes)

MessageSpec == MessageInit /\ [][Next]_vars

(***************************************************************************)
(* Properties                                                              *)
(***************************************************************************)
\* an attempt that ended in HTTP 429, in a 5xx status or in a transport failure
Transient(attempt) ==
    \/ attempt.kind = "failure"
    \/ attempt.kind = "http" /\ (attempt.status = 429 \/ attempt.status \in 500..599)

\* an attempt that ended in a 4xx status other than 429
ClientError(attempt) ==
    attempt.kind = "http" /\ attempt.status \in 400..499 /\ attempt.status # 429

Statuses(log) == [i \in 1..Len(log) |-> log[i].status]

Timestamps(logs) == [i \in 1..Len(logs) |-> logs[i].timestamp]

\* x ?? d for an optional number
Coalesce(x, d) == IF x = <<>> THEN d ELSE x[1]

Clamp(x, lo, hi) == IF x < lo THEN lo ELSE IF x > hi THEN hi ELSE x

\* the ids lo+1 .. hi in order (none when hi <= lo)
IdsFrom(lo, hi) == [k \in 1..(IF hi > lo THEN hi - lo ELSE 0) |-> lo + k]

\* C1: within one queryLogs call every attempt after the first follows an
\* attempt that ended in HTTP 429, a 5xx status or a transport failure, and
\* there are at most 4 attempts (at most 3 retries), whatever the remote
\* answers.
C1_RetryOnlyAfterTransient ==
    /\ Len(attemptLog) <= 4
    /\ Len(sleeps) <= 3
    /\ \A i \in 2..Len(attemptLog) : Transient(attemptLog[i - 1])

C1_Witness ==
    /\ Len(attemptLog) = 4
    /\ attemptLog[1].status = 429
    /\ attemptLog[2].kind = "failure"
    /\ attemptLog[3].status = 500

\* C2: every queryLogs call eventually completes (a result or an error),
\* for every sequence of remote answers, given that every request and every
\* backoff sleep completes.
C2_CallCompletes == <>(pc = "done")

C2_Witness ==
    /\ pc = "done"
    /\ Len(attemptLog) = 4
    /\ \A i \in 1..4 : Transient(attemptLog[i])
    /\ outcome = "error"

\* C3: an attempt that returns a 4xx status other than 429 is the last
\* attempt of the call, no backoff sleep follows it, and the call fails with
\* an error carrying that status and an excerpt of at most 500 characters of
\* the response body.
C3_ClientErrorIsTerminal ==
    \A i \in 1..Len(attemptLog) :
        ClientError(attemptLog[i]) =>
            /\ i = Len(attemptLog)
            /\ Len(sleeps) = i - 1
            /\ pc \in {"respond", "done"}
            /\ pc = "done" =>
                /\ outcome = "error"
                /\ error.kind = "ApiError"
                /\ error.status = attemptLog[i].status
                /\ error.excerptLen <= 500
                /\ error.excerptLen =
                       (IF response.bodyLen <= 500 THEN response.bodyLen ELSE 500)

C3_Witness ==
    /\ pc = "done"
    /\ Len(attemptLog) = 2
    /\ attemptLog[2].status = 404
    /\ response.bodyLen > 500
    /\ error.kind = "ApiError"
    /\ error.excerptLen = 500

\* C4: when all 4 attempts end in HTTP 429/5xx or in a transport failure the
\* call fails with an error carrying the status (or the cause) of the last
\* attempt; and a call that returns a result got a 2xx response on its last
\* attempt.
C4_ExhaustedRetriesFail ==
    /\ (pc = "done" /\ Len(attemptLog) = 4
          /\ \A i \in 1..4 : Transient(attemptLog[i])) =>
            /\ outcome = "error"
            /\ attemptLog[4].kind = "http" =>
                 error.kind = "ApiError" /\ error.status = attemptLog[4].status
            /\ attemptLog[4].kind = "failure" =>
                 error.kind = "Transport" /\ error.cause = attemptLog[4].cause
    /\ outcome = "ok" =>
            /\ attemptLog # <<>>
            /\ attemptLog[Len(attemptLog)].kind = "http"
            /\ attemptLog[Len(attemptLog)].status \in 200..299

C4_Witness ==
    /\ pc = "done"
    /\ Len(attemptLog) = 4
    /\ attemptLog[3].status = 429
    /\ attemptLog[4].status = 503
    /\ error.kind = "ApiError"
    /\ error.status = 503

\* C5: the sleep before retry k (k = 0, 1, 2) lasts 1000, 2000, 4000 ms,
\* whether a status or a transport failure caused the retry; when the remote
\* answers 503, 503, 200 the call succeeds after exactly 2 retries with the
\* delays 1000 and 2000.
C5_BackoffDelays ==
    /\ Len(sleeps) <= 3
    /\ \A k \in 1..Len(sleeps) : sleeps[k] = <<1000, 2000, 4000>>[k]
    /\ (pc = "sleep" /\ Len(sleeps) < 3) => delay = <<1000, 2000, 4000>>[Len(sleeps) + 1]
    /\ (pc = "done" /\ Statuses(attemptLog) = <<503, 503, 200>>
          /\ attemptLog[3].body # "malformed") =>
            /\ outcome = "ok"
            /\ retryCount = 2
            /\ sleeps = <<1000, 2000>>

C5_Witness ==
    /\ pc = "done"
    /\ Statuses(attemptLog) = <<503, 503, 200>>
    /\ outcome = "ok"
    /\ sleeps = <<1000, 2000>>

\* C6: every attempt, retries included, starts with the full request timeout
\* (30 s) ahead of it and is really sent, also after an earlier attempt
\* timed out or after backoff sleeps.
C6_TimeoutPerAttempt ==
    \A i \in 1..Len(attemptLog) :
        attemptLog[i].budget = 30000 /\ attemptLog[i].sent

\* C7: context building succeeds for every resolved range of at most 24
\* hours (exactly 24 hours included) and fails with the range error for every
\* range of more than 24 hours, however the range was given.
C7_RangeCheck ==
    (timeRange.start.valid /\ timeRange.end.valid) =>
        IF timeRange.end.t - timeRange.start.t <= 86400000
        THEN ~context.threw /\ error.kind # "RangeTooWide"
        ELSE /\ context.threw
             /\ pc = "done"
             /\ outcome = "error"
             /\ error.kind = "RangeTooWide"

C7_Witness ==
    /\ input.timeframe = "custom"
    /\ timeRange.end.t - timeRange.start.t = 86400000
    /\ ~context.threw
    /\ outcome = "ok"

\* C8: the resolved limit is clamp(requested_limit ?? 20, 1, 50) for every
\* requested limit (200 gives 50, 0 gives 1).
C8_LimitIsClamp ==
    ~context.threw => context.limit = Clamp(Coalesce(input.limit, 20), 1, 50)

\* C9: the resolved page is max(1, requested_page ?? 1): pages 1..100
\* resolve to themselves, an absent page to 1, and a page above 100 makes the
\* call fail with the page error, before any request is built.
C9_PageResolution ==
    /\ paging.page # 0 =>
        LET requested == Coalesce(input.page, 1)
            resolved  == IF requested > 1 THEN requested ELSE 1
        IN  IF resolved <= 100
            THEN paging.page = resolved /\ error.kind # "PageOutOfRange"
            ELSE /\ pc = "done"
                 /\ outcome = "error"
                 /\ error.kind = "PageOutOfRange"
    /\ Coalesce(input.page, 1) > 100 => (outcome # "ok" /\ request = NoRequest)

C9_Witness ==
    /\ input.page = <<100>>
    /\ paging.page = 100
    /\ outcome = "ok"

\* C10: for resolved page p and limit l the request asks for l + (p-1)*l
\* rows and the caller gets the remote rows at positions (p-1)*l .. p*l-1 in
\* remote order; the page after it, cut the same way from the same remote
\* rows, continues exactly where this one ends.
C10_PageSlice ==
    (pc = "done" /\ outcome = "ok") =>
        LET p        == paging.page
            l        == paging.limit
            m        == Len(remote.logs)
            nextOff  == calculateOffset(p + 1, l)
            nextPage == Slice(RemoteRows(remote.logs, l + nextOff), nextOff, nextOff + l)
        IN  /\ request.limit = l + (p - 1) * l
            /\ Timestamps(output.logs) = IdsFrom((p - 1) * l, Min(p * l, m))
            /\ Timestamps(output.logs) \o Timestamps(nextPage)
                  = IdsFrom((p - 1) * l, Min((p + 1) * l, m))

C10_Witness ==
    /\ pc = "done"
    /\ outcome = "ok"
    /\ paging.page = 2
    /\ paging.limit = 3
    /\ Timestamps(output.logs) = <<4, 5, 6>>

\* the tool call has no query, or an empty one
NoQuery == input.query = <<>> \/ input.query[1] = <<>>

\* explicit dates decide the range: timeframe "custom" or no timeframe
DatesDecide == input.timeframe = "custom" \/ Falsy(input.timeframe)

Parsable(s) == s \in DOMAIN ISO_TABLE

\* an input the validation has to reject
BadInput ==
    \/ NoQuery
    \/ input.timeframe = "custom"
         /\ (Falsy(input.startDate) \/ Falsy(input.endDate)
               \/ ~Parsable(input.startDate) \/ ~Parsable(input.endDate))
    \/ DatesDecide /\ Parsable(input.startDate) /\ Parsable(input.endDate)
         /\ ISO_TABLE[input.endDate] - ISO_TABLE[input.startDate] > 86400000
    \/ Coalesce(input.page, 1) > 100

\* C11: a call rejected for a missing or empty query, for missing or
\* unparsable custom dates, for a range wider than 24 hours or for a page
\* above 100 fails without any request to the remote API, without retry and
\* without backoff sleep.
C11_ValidationBeforeNetwork ==
    /\ (outcome = "error"
          /\ error.kind \in {"InvalidInput", "RangeTooWide", "PageOutOfRange",
                             "InvalidTime"}) =>
            attemptLog = <<>> /\ sleeps = <<>> /\ request = NoRequest
    /\ BadInput =>
            /\ attemptLog = <<>>
            /\ sleeps = <<>>
            /\ pc \notin {"fetch", "sleep", "respond", "slice"}
            /\ pc = "done" => outcome = "error"

C11_Witness ==
    /\ pc = "done"
    /\ input.timeframe = "custom"
    /\ input.startDate = "not-a-date"
    /\ outcome = "error"
    /\ attemptLog = <<>>

\* C12: with timeframe "custom" no context is produced whose start or end
\* is not a valid instant: missing or unparsable dates are rejected.
C12_CustomDatesValidated ==
    (input.timeframe = "custom" /\ ~context.threw) =>
        context.range.start.valid /\ context.range.end.valid

\* C13: every context that is built has its start strictly before its end,
\* also for custom ranges given with start equal to or later than end.
C13_StartBeforeEnd ==
    (~context.threw /\ context.range.start.valid /\ context.range.end.valid) =>
        context.range.start.t < context.range.end.t

C15_ArchiveFlag ==
    ~context.threw =>
        /\ context.includeArchive <=>
              (context.range.start.valid
                 /\ archiveNow - context.range.start.t > 86400000)
        /\ (input.timeframe = "custom"
              /\ input.startDate = "2024-01-15T10:00:00Z"
              /\ input.endDate = "2024-01-15T11:00:00Z") =>
                (context.includeArchive <=> archiveNow > 34 * 3600000)

C15_Witness ==
    /\ ~context.threw
    /\ input.timeframe = "custom"
    /\ input.startDate = "2024-01-15T10:00:00Z"
    /\ input.endDate = "2024-01-15T11:00:00Z"
    /\ archiveNow = 34 * 3600000 + 1
    /\ context.includeArchive
    /\ pc = "done"
    /\ request.includeArchive

\* the query text of the call
QueryText == IF NoQuery THEN <<>> ELSE input.query[1]

AllSpaces(q, a, b) == \A k \in a..b : q[k] = " "

AllWords(q, a, b) == \A k \in a..b : q[k] \in WordTokens

WordEndsAt(q, j) == j = Len(q) \/ q[j + 1] \notin WordTokens

\* a pipe followed, after optional blanks, by one of the seven stage
\* keywords as a whole word, in any letter case
HasPipeStage(q) ==
    \E i \in 1..Len(q) : \E j \in (i + 1)..Len(q) :
        /\ q[i] = "|"
        /\ AllSpaces(q, i + 1, j - 1)
        /\ Lower(q[j]) \in {"filter", "limit", "sort", "groupby", "summarize",
                            "choose", "extract"}
        /\ WordEndsAt(q, j)

\* the word source, blanks, a word, optional blanks, a pipe
HasSourceStage(q) ==
    \E i \in 1..Len(q) : \E j \in (i + 2)..Len(q) : \E k \in j..Len(q) :
      \E m \in (k + 1)..Len(q) :
        /\ Lower(q[i]) = "source"
        /\ i = 1 \/ q[i - 1] \notin WordTokens
        /\ AllSpaces(q, i + 1, j - 1)
        /\ AllWords(q, j, k)
        /\ AllSpaces(q, k + 1, m - 1)
        /\ q[m] = "|"

\* contains, startswith or endswith between blanks
HasTextRelation(q) ==
    \E i \in 2..(Len(q) - 1) :
        /\ q[i - 1] = " "
        /\ q[i + 1] = " "
        /\ Lower(q[i]) \in {"contains", "startswith", "endswith"}

\* C16: dialect detection returns dataprime for every query that contains a
\* pipe followed by filter, limit, sort, groupby, summarize, choose or
\* extract (in any letter case), and lucene for every other query.
C16_PipeKeywordOnly ==
    ~context.threw =>
        (context.detectedSyntax = "dataprime" <=> HasPipeStage(QueryText))

\* C16 as the code has it: detection returns dataprime exactly for the
\* queries with a pipe followed by a stage keyword as a whole word, with
\* `source <word> |`, or with contains/startswith/endswith between blanks,
\* and lucene for every other query; the request carries the matching tag.
C16_DetectedDialect ==
    ~context.threw =>
        /\ context.detectedSyntax \in {"dataprime", "lucene"}
        /\ context.detectedSyntax = "dataprime" <=>
              \/ HasPipeStage(QueryText)
              \/ HasSourceStage(QueryText)
              \/ HasTextRelation(QueryText)
        /\ request # NoRequest =>
              (request.syntax = "QUERY_SYNTAX_DATAPRIME"
                 <=> context.detectedSyntax = "dataprime")

C16_Witness ==
    /\ pc = "done"
    /\ outcome = "ok"
    /\ QueryText = <<"source", " ", "logs", "|", "w">>
    /\ ~HasPipeStage(QueryText)
    /\ context.detectedSyntax = "dataprime"
    /\ request.syntax = "QUERY_SYNTAX_DATAPRIME"

Dialects == {"lucene", "dataprime"}

\* C17: optimization is idempotent for every query and each dialect.
C17_Idempotent ==
    \A d \in Dialects :
        optimizeQuery(optimizeQuery(QueryText, d), d) = optimizeQuery(QueryText, d)

\* C17 as the code has it: optimizing the query text that was sent, under
\* the dialect that was detected, gives the same text again; and for every
\* query that is not blank, optimization is idempotent under each dialect.
C17_IdempotentWhenNotBlank ==
    /\ request # NoRequest =>
          /\ request.query = optimizeQuery(QueryText, context.detectedSyntax)
          /\ optimizeQuery(request.query, context.detectedSyntax) = request.query
    /\ Trim(QueryText) # <<>> =>
          \A d \in Dialects :
              optimizeQuery(optimizeQuery(QueryText, d), d)
                  = optimizeQuery(QueryText, d)

C17_Witness ==
    /\ pc = "done"
    /\ outcome = "ok"
    /\ QueryText = <<" ", " ", "w", " ", "w", " ">>
    /\ request.query = <<"\"", "w", " ", "w", "\"">>
    /\ optimizeQuery(request.query, "lucene") = request.query
    /\ optimizeQuery(optimizeQuery(QueryText, "dataprime"), "dataprime")
          = <<"w", " ", "w">> \o LimitSuffix

\* C18: for a dataprime query ` | limit 50` is appended exactly when the
\* query has no limit stage; a query with a limit stage (a pipe followed by
\* limit, in any letter case and any spacing the detector accepts) is sent
\* unchanged apart from trimming.
C18_LimitAppendedIffNoLimitStage ==
    (request # NoRequest /\ context.detectedSyntax = "dataprime") =>
        request.query = IF MatchesPipeKeyword(QueryText, "limit")
                        THEN Trim(QueryText)
                        ELSE Trim(QueryText) \o LimitSuffix

\* indices of the lines of the response that expose the key
LinesWith(key) == {i \in 1..Len(response.lines) : response.lines[i].kind = key}

C20_SingleObjectAccepted ==
    (pc = "done" /\ response # NoResponse /\ response.status = 200
       /\ response.body \in {"logs", "logsPretty"}) =>
        /\ outcome = "ok"
        /\ clientResult.logs = RemoteRows(remote.logs, request.limit)

\* C21: a 200 response in which every line parses as JSON but none exposes
\* a `result` or a `logs` key (an empty body included) yields an empty
\* result set with count 0 and is never reported as an error.
C21_NoResultIsEmpty ==
    (pc \in {"slice", "done"} /\ response # NoResponse /\ response.status = 200
       /\ \A i \in 1..Len(response.lines) :
             response.lines[i].kind \in {"queryId", "scalar", "null"}) =>
        /\ outcome # "error"
        /\ clientResult = [logs |-> <<>>, total |-> 0]
        /\ pc = "done" =>
              /\ output.logs = <<>>
              /\ output.resultsShown = 0
              /\ output.totalResults = 0

\* the 200 response has a line that is not valid JSON
HasBadLine == \E i \in 1..Len(response.lines) : response.lines[i].kind = "bad"

\* no request follows an attempt that was answered with 200
NothingAfter200 ==
    \A i \in 1..Len(attemptLog) : attemptLog[i].status = 200 => i = Len(attemptLog)

RawMessage == remote.logs[1].text

Returned == pc = "done" /\ outcome = "ok" /\ Len(output.logs) >= 1

\* C23: normalization returns a message under 1000 characters unchanged and
\* otherwise a text no longer than 1000 characters plus the marker (at most
\* 30 characters), for stack-trace-shaped and plain messages alike.
C23_MessageBounded ==
    Returned =>
        IF TextLength(RawMessage) < 1000
        THEN output.logs[1].message = RawMessage
        ELSE TextLength(output.logs[1].message) <= 1000 + 30

\* an over-length stack-trace-shaped message was returned
StackTruncated ==
    Returned /\ RawMessage.stack /\ TextLength(RawMessage) > 1000

\* the line `... and K more lines`, by its length
MarkerLine(k) == <<19 + Digits(k)>>

\* C24: the truncated text of an over-length stack trace of n lines is the
\* first line, then up to 5 of the subsequent lines in order, then the
\* marker `... and K more lines` exactly when lines were omitted, K being
\* the number of omitted lines.
C24_StackTraceKept ==
    StackTruncated =>
        LET lines == RawMessage.lineLens
            n     == Len(lines)
        IN  \E k \in 0..Min(5, n - 1) :
                output.logs[1].message.lineLens =
                    <<lines[1]>> \o SubSeq(lines, 2, k + 1)
                        \o (IF k + 1 < n THEN MarkerLine(n - 1 - k) ELSE <<>>)

\* C24 as the code has it: the first line, then up to 4 of the subsequent
\* lines in order (for a text of one line: nothing, after a newline), then
\* the marker exactly when n > 5, with K = n - 5.
C24_StackTraceFiveLines ==
    StackTruncated =>
        LET lines == RawMessage.lineLens
            n     == Len(lines)
        IN  output.logs[1].message.lineLens =
                <<lines[1]>>
                    \o (IF n = 1 THEN <<0>> ELSE SubSeq(lines, 2, Min(n, 5)))
                    \o (IF n > 5 THEN MarkerLine(n - 5) ELSE <<>>)

C24_Witness ==
    /\ StackTruncated
    /\ Len(RawMessage.lineLens) = 8
    /\ output.logs[1].message.lineLens = <<201, 202, 203, 204, 205, 20>>

\* C25: in every result hasNextPage is true exactly when the number of
\* records on the page equals the resolved limit, nextPageAvailable has the
\* same value, and resultsShown is the number of records in logs.
C25_NextPageHeuristic ==
    (pc = "done" /\ outcome = "ok") =>
        /\ output.hasNextPage <=> Len(output.logs) = context.limit
        /\ context.limit = paging.limit
        /\ output.nextPageAvailable = output.hasNextPage
        /\ output.resultsShown = Len(output.logs)

C25_Witness ==
    /\ pc = "done"
    /\ outcome = "ok"
    /\ input.limit = <<3>>
    /\ input.page = <<3>>
    /\ Len(output.logs) = 1
    /\ ~output.hasNextPage
    /\ ~output.nextPageAvailable
    /\ output.resultsShown = 1

\* C28: when the optimizer appends a limit stage to a dataprime query, the
\* row cap it writes (50) is at least the row limit of the request
\* (limit + offset), for every resolved page and limit.
C28_AppendedCapCoversRequest ==
    (request # NoRequest /\ context.detectedSyntax = "dataprime"
       /\ request.query = Trim(QueryText) \o LimitSuffix) =>
        /\ request.limit = paging.limit + paging.offset
        /\ MAX_LIMIT >= request.limit

\* C29: for every preset timeframe and for an absent timeframe the built
\* context has the archive flag false, however much the clock advances
\* between resolving the range and deciding the flag.
C29_PresetsNeverArchive ==
    (~context.threw
       /\ \/ input.timeframe \in {"15m", "1h", "6h", "24h"}
          \/ input.timeframe = "undefined"
               /\ (Falsy(input.startDate) \/ Falsy(input.endDate))) =>
        ~context.includeArchive

\* C30: the dialect tag sent always matches the query text sent with it:
\* detecting the dialect of the optimized text gives the detected dialect
\* of the original text again.
C30_TagMatchesText ==
    request # NoRequest =>
        /\ request.query = optimizeQuery(QueryText, detectQuerySyntax(QueryText))
        /\ detectQuerySyntax(request.query) = context.detectedSyntax
        /\ request.syntax = "QUERY_SYNTAX_DATAPRIME"
              <=> detectQuerySyntax(request.query) = "dataprime"

\* the environment lacks the API key, or its domain is none of the known ones
BadEnvironment ==
    Falsy(server.apiKey) \/ server.domain \notin CORALOGIX_DOMAINS

\* C27: a missing API key or a missing or unknown domain is fatal at
\* startup: the process exits before the server accepts a tool call, so no
\* call is handled with an uninitialized client; and no per-call error
\* terminates the process.
C27_BadConfigIsFatal ==
    /\ BadEnvironment =>
          /\ server.state \in {"starting", "exited"}
          /\ ~server.client
          /\ pc \in {"handler", "exited"}
          /\ outcome = "pending"
    /\ pc \notin {"handler", "exited"} => server.client
    /\ error.kind # "NotInitialized"
    /\ outcome = "error" => (server.state = "serving" \/ server.exitCode = 0)

\* what an invocation that runs alone shows, from its own input and the
\* answers it got: attempt k carries retry count k - 1, the sleeps double from
\* the base delay, and the page is cut by its own page and limit
RanAsAlone(call) ==
    LET v == validatePagination(call.input.page, call.input.limit)
        m == Len(remote.logs)
    IN  /\ Len(call.attemptLog) <= MAX_RETRIES + 1
        /\ \A i \in 1..Len(call.attemptLog) :
               /\ call.attemptLog[i].retryCount = i - 1
               /\ i < Len(call.attemptLog) => Transient(call.attemptLog[i])
        /\ \A k \in 1..Len(call.sleeps) : call.sleeps[k] = BackoffDelay(k - 1)
        /\ call.retryCount = Len(call.sleeps)
        /\ call.pc = "sleep" =>
               /\ call.delay = BackoffDelay(call.retryCount)
               /\ Len(call.attemptLog) = Len(call.sleeps) + 1
        /\ call.pc \in {"fetch"} => Len(call.attemptLog) = Len(call.sleeps)
        /\ call.request # NoRequest =>
               /\ call.request.limit = v.limit + calculateOffset(v.page, v.limit)
               /\ call.request.query =
                      optimizeQuery(call.input.query[1],
                                    detectQuerySyntax(call.input.query[1]))
        /\ call.pc = "done" =>
               IF call.attemptLog[Len(call.attemptLog)].status = 200
               THEN /\ call.outcome = "ok"
                    /\ Timestamps(call.output.logs) =
                           IdsFrom((v.page - 1) * v.limit, Min(v.page * v.limit, m))
               ELSE /\ call.outcome = "error"
                    /\ call.error.status = call.attemptLog[Len(call.attemptLog)].status

\* C26: when two query_logs invocations run interleaved at their suspension
\* points, each one's outcome, attempt count and backoff delays are those of
\* the same invocation running alone with the same input and the same remote
\* answers: neither reads or writes state of the other.
C26_InvocationsIndependent ==
    /\ RanAsAlone(Active)
    /\ RanAsAlone(other)

\* both invocations wait in a backoff sleep, one before its first retry, the
\* other before its third
C26_Witness ==
    /\ pc = "sleep" /\ other.pc = "sleep"
    /\ input # other.input
    /\ Len(sleeps) = 0 /\ Len(other.sleeps) = 2
    /\ delay = 1000 /\ other.delay = 4000

====
